---- MODULE Spec2Model ----
(***************************************************************************)
(* find_available_time_slots (src/backend/tools.py, lines 360-508) as a    *)
(* state machine.  One behaviour is one invocation of the tool: the        *)
(* request arguments are fixed in Init, the clock and the local time zone  *)
(* are read by Begin, the busy list is the answer of the freebusy query    *)
(* in Fetch, and the per-date loop, the sweep over the merged busy         *)
(* intervals and the two slot-emission loops advance one iteration per     *)
(* step.                                                                   *)
(*                                                                         *)
(* Instants are whole seconds on the UTC axis (second 0 is 00:00:00 UTC    *)
(* of date 0); a date is a day number; the local zone is a fixed offset    *)
(* in seconds east of UTC.  The model covers the invocations in which      *)
(* get_calendar_service() and the freebusy query succeed.                  *)
(***************************************************************************)
EXTENDS Integers, Sequences, FiniteSets, TLC

SecondsPerMinute == 60
MinutesPerHour == 60
HoursPerDay == 24
MaxHour == 23
MaxDuration == 1440

SecondsPerHour == SecondsPerMinute * MinutesPerHour
SecondsPerDay == SecondsPerHour * HoursPerDay

\* Largest number of busy intervals the freebusy answer holds.
MaxBusy == 3

Max(a, b) == IF a >= b THEN a ELSE b
Min(a, b) == IF a <= b THEN a ELSE b

\* The instant of wall-clock h:m:s UTC on date d.
At(d, h, m, s) == d * SecondsPerDay + h * SecondsPerHour + m * SecondsPerMinute + s

----------------------------------------------------------------------------
(* Inputs *)

\* The dates a request may name are 0..LastDate; the clock reads date 0 or 1.
LastDate == 2

Dates == 0..LastDate

\* A date argument: an ISO date string that parses to a day, a string that
\* does not parse, or None (end_date only).
IsoDate(d) == [kind |-> "iso", day |-> d]
BadDate == [kind |-> "bad", day |-> 0]
NoDate == [kind |-> "none", day |-> 0]

StartDateArgs == {IsoDate(d) : d \in Dates} \cup {BadDate}
EndDateArgs == {IsoDate(d) : d \in Dates} \cup {BadDate, NoDate}
StartHourArgs == {-1, 9, 10, 17}
EndHourArgs == {9, 10, 17, 24}
DurationArgs == {0, 30, 45, 1441}

\* Offsets of the local zone: UTC+05:30 and UTC-05:00.
TzOffsets == {At(0, 5, 30, 0), 0 - At(0, 5, 0, 0)}

\* Readings of the clock (UTC).  At UTC+05:30 they are 08:30:00, 09:45:00,
\* 09:45:30 and 17:30:00 of date 1; at UTC-05:00 the first three fall on the
\* evening of date 0 and the last is 07:00:00 of date 1.
Nows == {At(1, 3, 0, 0), At(1, 4, 15, 0), At(1, 4, 15, 30), At(1, 12, 0, 0)}

\* Busy intervals the calendar may report, as (start, end) pairs.  In
\* UTC+05:30 wall-clock time of date 1: 10:00-11:00, 10:30-12:00 (overlaps
\* it), 11:00-12:30 (touches it), 10:15-10:30 (inside it), 09:00-17:00 (the
\* whole working day), 09:15-09:15 (zero length), and 15:30 to 09:30 of
\* date 2 (spans midnight).
BusyPool ==
    { <<At(1, 4, 30, 0), At(1, 5, 30, 0)>>,
      <<At(1, 5, 0, 0), At(1, 6, 30, 0)>>,
      <<At(1, 5, 30, 0), At(1, 7, 0, 0)>>,
      <<At(1, 4, 45, 0), At(1, 5, 0, 0)>>,
      <<At(1, 3, 30, 0), At(1, 11, 30, 0)>>,
      <<At(1, 3, 45, 0), At(1, 3, 45, 0)>>,
      <<At(1, 10, 0, 0), At(2, 4, 0, 0)>> }

BusySets == {S \in SUBSET BusyPool : Cardinality(S) <= MaxBusy}

----------------------------------------------------------------------------
(* Conversions *)

\* datetime.combine(date, time(hour, 0), tzinfo=local_tz).astimezone(utc)
ToUtc(date, hour, tz) == date * SecondsPerDay + hour * SecondsPerHour - tz

\* instant.astimezone(local_tz).date()
LocalDate(t, tz) == (t + tz) \div SecondsPerDay

\* instant.astimezone(local_tz).strftime('%I:%M %p').lstrip('0'): the
\* 12-hour clock reading, seconds dropped.
FormatTime(t, tz) ==
    LET sod == (t + tz) % SecondsPerDay
        h == sod \div SecondsPerHour
        m == (sod % SecondsPerHour) \div SecondsPerMinute
    IN  [hour |-> IF h % 12 = 0 THEN 12 ELSE h % 12,
         minute |-> m,
         half |-> IF h < 12 THEN "AM" ELSE "PM"]

\* The line "<start> to <end>" appended to day_slots.
FormatSlot(s, e, tz) == <<FormatTime(s, tz), FormatTime(e, tz)>>

----------------------------------------------------------------------------
(* Busy intervals: sort, filter, merge *)

\* Python's tuple order.
LexLeq(a, b) == a[1] < b[1] \/ (a[1] = b[1] /\ a[2] <= b[2])

RECURSIVE Insert(_, _)
Insert(sorted, b) ==
    IF sorted = <<>> THEN <<b>>
    ELSE IF LexLeq(b, Head(sorted)) THEN <<b>> \o sorted
    ELSE <<Head(sorted)>> \o Insert(Tail(sorted), b)

\* sorted(list)
RECURSIVE Sorted(_)
Sorted(list) ==
    IF list = <<>> THEN <<>>
    ELSE Insert(Sorted(Tail(list)), Head(list))

\* The list the freebusy answer holds for a set of intervals, in the
\* calendar's (arbitrary) order.
RECURSIVE AsList(_)
AsList(S) ==
    IF S = {} THEN <<>>
    ELSE LET b == CHOOSE x \in S : \A y \in S : LexLeq(y, x)
         IN  <<b>> \o AsList(S \ {b})

\* The filter keeping only the intervals that lie inside the window.
KeepForDayInside(b, ws, we) == b[1] >= ws /\ b[2] <= we

\* The filter of lines 440-443.
KeepForDay(b, ws, we) == b[1] < we /\ b[2] > ws

RECURSIVE DayBusy(_, _, _)
DayBusy(list, ws, we) ==
    IF list = <<>> THEN <<>>
    ELSE (IF KeepForDay(Head(list), ws, we) THEN <<Head(list)>> ELSE <<>>)
         \o DayBusy(Tail(list), ws, we)

\* Line 447 with the comparison turned round.
MergeStepInverted(acc, b) ==
    IF acc = <<>> \/ b[1] < acc[Len(acc)][2]
    THEN Append(acc, b)
    ELSE [acc EXCEPT ![Len(acc)] = <<@[1], Max(@[2], b[2])>>]

\* Line 450 without max: the last end is overwritten.
MergeStepLastEnd(acc, b) ==
    IF acc = <<>> \/ b[1] > acc[Len(acc)][2]
    THEN Append(acc, b)
    ELSE [acc EXCEPT ![Len(acc)] = <<@[1], b[2]>>]

\* One iteration of the merge loop, lines 447-450.
MergeStep(acc, b) ==
    IF acc = <<>> \/ b[1] > acc[Len(acc)][2]
    THEN Append(acc, b)
    ELSE [acc EXCEPT ![Len(acc)] = <<@[1], Max(@[2], b[2])>>]

RECURSIVE MergeFrom(_, _)
MergeFrom(acc, list) ==
    IF list = <<>> THEN acc
    ELSE MergeFrom(MergeStep(acc, Head(list)), Tail(list))

\* merged_busy_times of lines 445-450, from the day's filtered list.
MergeBusy(list) == MergeFrom(<<>>, Sorted(list))

----------------------------------------------------------------------------
VARIABLES
    start_date, end_date, start_hour, end_hour, duration_minutes,
    local_tz, now_utc,
    parsed_start_date, parsed_end_date,
    busy_times_utc, fetches,
    current_date, work_start_utc, work_end_utc, search_start_utc,
    current_time_utc, day_busy_times_utc, merged_busy_times, idx,
    free_end_utc, slot_start_utc,
    day_slots, day_windows, available_slots,
    result, pc,
    kwargs, calendar_event, event, update_data, update_result, update_pc

args == <<start_date, end_date, start_hour, end_hour, duration_minutes>>
env == <<local_tz, now_utc>>
parsed == <<parsed_start_date, parsed_end_date>>
fetched == <<busy_times_utc, fetches>>
day == <<work_start_utc, work_end_utc, search_start_utc>>
sweep == <<current_time_utc, day_busy_times_utc, merged_busy_times, idx,
           free_end_utc>>
slots == <<slot_start_utc, day_slots, day_windows>>
\* The variables of update_calendar_event: its arguments, the calendar's
\* copy of the event, the event dict being edited, the arguments still to
\* apply, the reply and the position.
update == <<kwargs, calendar_event, event, update_data, update_result, update_pc>>
vars == <<args, env, parsed, fetched, current_date, day, sweep, slots,
          available_slots, result, pc, update>>

\* timedelta(seconds=duration_minutes) in place of minutes.
durationInSeconds == duration_minutes

\* duration = datetime.timedelta(minutes=duration_minutes)
duration == duration_minutes * SecondsPerMinute

NoResult == [kind |-> "", body |-> <<>>]
Error(k) == [kind |-> k, body |-> <<>>]

\* update_calendar_event is not running.
UpdateIdle ==
    /\ kwargs = <<>>
    /\ calendar_event = <<>>
    /\ event = <<>>
    /\ update_data = <<>>
    /\ update_result = ""
    /\ update_pc = "idle"

Init ==
    /\ UpdateIdle
    /\ start_date \in StartDateArgs
    /\ end_date \in EndDateArgs
    /\ start_hour \in StartHourArgs
    /\ end_hour \in EndHourArgs
    /\ duration_minutes \in DurationArgs
    /\ local_tz = 0
    /\ now_utc = 0
    /\ parsed_start_date = 0
    /\ parsed_end_date = 0
    /\ busy_times_utc = <<>>
    /\ fetches = 0
    /\ current_date = 0
    /\ work_start_utc = 0
    /\ work_end_utc = 0
    /\ search_start_utc = 0
    /\ current_time_utc = 0
    /\ day_busy_times_utc = <<>>
    /\ merged_busy_times = <<>>
    /\ idx = 0
    /\ free_end_utc = 0
    /\ slot_start_utc = 0
    /\ day_slots = <<>>
    /\ day_windows = <<>>
    /\ available_slots = <<>>
    /\ result = NoResult
    /\ pc = "start"

\* Lines 373-376: the service, the local zone and the clock.
Begin ==
    /\ pc = "start"
    /\ local_tz' \in TzOffsets
    /\ now_utc' \in Nows
    /\ pc' = "parse"
    /\ UNCHANGED <<update, args, parsed, fetched, current_date, day, sweep, slots,
                   available_slots, result>>

\* Lines 378-383.
ParseDates ==
    /\ pc = "parse"
    /\ IF start_date.kind = "bad" \/ end_date.kind = "bad"
       THEN /\ result' = Error("DateFormat")
            /\ pc' = "done"
            /\ UNCHANGED parsed
       ELSE /\ parsed_start_date' = start_date.day
            /\ parsed_end_date' =
                   IF end_date.kind = "none" THEN start_date.day ELSE end_date.day
            /\ pc' = "validate"
            /\ UNCHANGED result
    /\ UNCHANGED <<update, args, env, fetched, current_date, day, sweep, slots,
                   available_slots>>

\* Lines 386-387: a start date before today's local date becomes today.
AdvancedStart(psd, now, tz) ==
    IF psd < LocalDate(now, tz) THEN LocalDate(now, tz) ELSE psd

\* Lines 389-398 without the test that start_hour is before end_hour.
ValidationErrorNoHourOrder(psd, ped, sh, eh, dm) ==
    IF psd > ped THEN "Range"
    ELSE IF ~(0 <= sh /\ sh <= MaxHour /\ 0 <= eh /\ eh <= MaxHour) THEN "Hours"
    ELSE IF dm <= 0 \/ dm > MaxDuration THEN "Duration"
    ELSE ""

\* Lines 389-398 with the hours tested against their lower bound only.
ValidationErrorNoUpperHour(psd, ped, sh, eh, dm) ==
    IF psd > ped THEN "Range"
    ELSE IF ~(0 <= sh /\ 0 <= eh) THEN "Hours"
    ELSE IF sh >= eh THEN "HourOrder"
    ELSE IF dm <= 0 \/ dm > MaxDuration THEN "Duration"
    ELSE ""

\* Lines 389-398, on the advanced start date: the first check that fails, or
\* "" when all pass.
ValidationError(psd, ped, sh, eh, dm) ==
    IF psd > ped THEN "Range"
    ELSE IF ~(0 <= sh /\ sh <= MaxHour /\ 0 <= eh /\ eh <= MaxHour) THEN "Hours"
    ELSE IF sh >= eh THEN "HourOrder"
    ELSE IF dm <= 0 \/ dm > MaxDuration THEN "Duration"
    ELSE ""

\* Lines 385-398.
Validate ==
    /\ pc = "validate"
    /\ parsed_start_date' = AdvancedStart(parsed_start_date, now_utc, local_tz)
    /\ LET err == ValidationError(parsed_start_date', parsed_end_date,
                                  start_hour, end_hour, duration_minutes)
       IN  IF err # ""
           THEN result' = Error(err) /\ pc' = "done"
           ELSE result' = result /\ pc' = "fetch"
    /\ UNCHANGED <<update, args, env, parsed_end_date, fetched, current_date, day,
                   sweep, slots, available_slots>>

\* Lines 401-402: the query range, local midnight of the first date to the
\* last second of the last date.
TimeMinUtc(psd, tz) == ToUtc(psd, 0, tz)
TimeMaxUtc(ped, tz) == ToUtc(ped, 0, tz) + SecondsPerDay - 1

\* The calendar reports the busy intervals that meet the query range.
InQueryRange(b, tmin, tmax) == b[1] <= tmax /\ b[2] >= tmin

\* Lines 401-419: the freebusy query, its answer sorted, the loop variables.
Fetch ==
    /\ pc = "fetch"
    /\ \E S \in BusySets :
          /\ \A b \in S : InQueryRange(b, TimeMinUtc(parsed_start_date, local_tz),
                                       TimeMaxUtc(parsed_end_date, local_tz))
          /\ busy_times_utc' = Sorted(AsList(S))
    /\ fetches' = fetches + 1
    /\ available_slots' = <<>>
    /\ current_date' = parsed_start_date
    /\ pc' = "loop"
    /\ UNCHANGED <<update, args, env, parsed, day, sweep, slots, result>>

\* Line 431 without the clock: the search starts at the window's start.
SearchStartAtWorkStart(now, ws) == ws

\* Line 431.
SearchStart(now, ws) == Max(now, ws)

\* The skip of an elapsed day without the step to the next date.
DaySkipSameDate ==
    /\ pc = "loop"
    /\ current_date <= parsed_end_date
    /\ work_start_utc' = ToUtc(current_date, start_hour, local_tz)
    /\ work_end_utc' = ToUtc(current_date, end_hour, local_tz)
    /\ search_start_utc' = SearchStart(now_utc, work_start_utc')
    /\ search_start_utc' >= work_end_utc'
    /\ UNCHANGED <<update, args, env, parsed, fetched, current_date, sweep,
                   slots, available_slots, result, pc>>

\* Lines 421-435: a date whose working hours have wholly elapsed is skipped.
DaySkip ==
    /\ pc = "loop"
    /\ current_date <= parsed_end_date
    /\ work_start_utc' = ToUtc(current_date, start_hour, local_tz)
    /\ work_end_utc' = ToUtc(current_date, end_hour, local_tz)
    /\ search_start_utc' = SearchStart(now_utc, work_start_utc')
    /\ search_start_utc' >= work_end_utc'
    /\ current_date' = current_date + 1
    /\ UNCHANGED <<update, args, env, parsed, fetched, sweep, slots, available_slots,
                   result, pc>>

\* Lines 421-450: the date's window, its busy intervals filtered and merged.
DayBegin ==
    /\ pc = "loop"
    /\ current_date <= parsed_end_date
    /\ work_start_utc' = ToUtc(current_date, start_hour, local_tz)
    /\ work_end_utc' = ToUtc(current_date, end_hour, local_tz)
    /\ search_start_utc' = SearchStart(now_utc, work_start_utc')
    /\ search_start_utc' < work_end_utc'
    /\ current_time_utc' = search_start_utc'
    /\ day_busy_times_utc' =
           DayBusy(busy_times_utc, work_start_utc', work_end_utc')
    /\ merged_busy_times' = MergeBusy(day_busy_times_utc')
    /\ idx' = 1
    /\ day_slots' = <<>>
    /\ day_windows' = <<>>
    /\ pc' = "sweep"
    /\ UNCHANGED <<update, args, env, parsed, fetched, current_date, free_end_utc,
                   slot_start_utc, available_slots, result>>

\* Line 453 without the busy interval's start: the gap runs to the window end.
FreeEndIgnoresBusy(busy_start, we) == we

\* Line 453.
FreeEnd(busy_start, we) == Min(busy_start, we)

\* Line 466 without the busy interval's end: the cursor stays.
NextCursorStays(cur, busy_end) == cur

\* The cursor set to the end of the busy interval, without the max.
NextCursorToBusyEnd(cur, busy_end) == busy_end

\* Line 466.
NextCursor(cur, busy_end) == Max(cur, busy_end)

\* The loop conditions with < in place of <=.
FitsStrictly(s, d, limit) == s + d < limit

\* The loop conditions tested on the slot's start alone.
FitsByStart(s, d, limit) == s < limit

\* The loop conditions of lines 456 and 470.
Fits(s, d, limit) == s + d <= limit

\* Lines 457 and 471.
SlotEnd(s, d) == s + d

\* Lines 452-455 and, when the gap before the busy interval is empty, 466.
SweepNext ==
    /\ pc = "sweep"
    /\ idx <= Len(merged_busy_times)
    /\ free_end_utc' = FreeEnd(merged_busy_times[idx][1], work_end_utc)
    /\ IF current_time_utc < free_end_utc'
       THEN /\ slot_start_utc' = current_time_utc
            /\ pc' = "gap"
            /\ UNCHANGED <<current_time_utc, idx>>
       ELSE /\ current_time_utc' =
                   NextCursor(current_time_utc, merged_busy_times[idx][2])
            /\ idx' = idx + 1
            /\ UNCHANGED <<slot_start_utc, pc>>
    /\ UNCHANGED <<update, args, env, parsed, fetched, current_date, day,
                   day_busy_times_utc, merged_busy_times, day_slots,
                   day_windows, available_slots, result>>

\* Lines 456-465: one slot before the busy interval.
GapEmit ==
    /\ pc = "gap"
    /\ Fits(slot_start_utc, duration, free_end_utc)
    /\ day_slots' = Append(day_slots,
           FormatSlot(slot_start_utc, SlotEnd(slot_start_utc, duration), local_tz))
    /\ day_windows' = Append(day_windows,
           <<slot_start_utc, SlotEnd(slot_start_utc, duration)>>)
    /\ slot_start_utc' = slot_start_utc + duration
    /\ UNCHANGED <<update, args, env, parsed, fetched, current_date, day, sweep,
                   available_slots, result, pc>>

\* Lines 456 (no room left) and 466.
GapEnd ==
    /\ pc = "gap"
    /\ ~Fits(slot_start_utc, duration, free_end_utc)
    /\ current_time_utc' = NextCursor(current_time_utc, merged_busy_times[idx][2])
    /\ idx' = idx + 1
    /\ pc' = "sweep"
    /\ UNCHANGED <<update, args, env, parsed, fetched, current_date, day,
                   day_busy_times_utc, merged_busy_times, free_end_utc, slots,
                   available_slots, result>>

\* Lines 468-469: after the last busy interval.
TailBegin ==
    /\ pc = "sweep"
    /\ idx > Len(merged_busy_times)
    /\ IF current_time_utc < work_end_utc
       THEN slot_start_utc' = current_time_utc /\ pc' = "tail"
       ELSE slot_start_utc' = slot_start_utc /\ pc' = "dayend"
    /\ UNCHANGED <<update, args, env, parsed, fetched, current_date, day, sweep,
                   day_slots, day_windows, available_slots, result>>

\* Lines 470-478: one slot in the final gap.
TailEmit ==
    /\ pc = "tail"
    /\ Fits(slot_start_utc, duration, work_end_utc)
    /\ day_slots' = Append(day_slots,
           FormatSlot(slot_start_utc, SlotEnd(slot_start_utc, duration), local_tz))
    /\ day_windows' = Append(day_windows,
           <<slot_start_utc, SlotEnd(slot_start_utc, duration)>>)
    /\ slot_start_utc' = slot_start_utc + duration
    /\ UNCHANGED <<update, args, env, parsed, fetched, current_date, day, sweep,
                   available_slots, result, pc>>

\* Line 470 (no room left).
TailEnd ==
    /\ pc = "tail"
    /\ ~Fits(slot_start_utc, duration, work_end_utc)
    /\ pc' = "dayend"
    /\ UNCHANGED <<update, args, env, parsed, fetched, current_date, day, sweep, slots,
                   available_slots, result>>

\* Lines 480-483 without the test of day_slots: every date gets a section.
WithDayAlways(report, date, lines) ==
    Append(report, [date |-> date, slots |-> lines])

\* Lines 480-483: the date's section of available_slots_str, written only
\* when the date has slots.
WithDay(report, date, lines) ==
    IF lines # <<>> THEN Append(report, [date |-> date, slots |-> lines])
    ELSE report

\* Lines 480-487.
DayEnd ==
    /\ pc = "dayend"
    /\ available_slots' = WithDay(available_slots, current_date, day_slots)
    /\ current_date' = current_date + 1
    /\ pc' = "loop"
    /\ UNCHANGED <<update, args, env, parsed, fetched, day, sweep, slots, result>>

\* Lines 489-503 without the test of available_slots_str.
OutcomeAlwaysListing(report, psd, ped, sh, eh, dm) ==
    [kind |-> "Slots", body |-> report]

\* Lines 489-503: the returned text.
Outcome(report, psd, ped, sh, eh, dm) ==
    IF report = <<>>
    THEN [kind |-> "NoSlots",
          body |-> <<dm, IF ped # psd THEN <<psd, ped>> ELSE <<psd>>, sh, eh>>]
    ELSE [kind |-> "Slots", body |-> report]

\* Lines 421 (range exhausted) and 489-503.
Finish ==
    /\ pc = "loop"
    /\ current_date > parsed_end_date
    /\ result' = Outcome(available_slots, parsed_start_date, parsed_end_date,
                         start_hour, end_hour, duration_minutes)
    /\ pc' = "done"
    /\ UNCHANGED <<update, args, env, parsed, fetched, current_date, day, sweep, slots,
                   available_slots>>

Next ==
    \/ Begin
    \/ ParseDates
    \/ Validate
    \/ Fetch
    \/ DaySkip
    \/ DayBegin
    \/ SweepNext
    \/ GapEmit
    \/ GapEnd
    \/ TailBegin
    \/ TailEmit
    \/ TailEnd
    \/ DayEnd
    \/ Finish

Spec == Init /\ [][Next]_vars

----------------------------------------------------------------------------
(* The same computation as functions of the request, the clock, the zone   *)
(* and the busy list, for statements that compare two invocations.         *)

\* The emission loops of lines 456-465 and 470-478, run to their end.
RECURSIVE GapWindows(_, _, _)
GapWindows(s, d, limit) ==
    IF Fits(s, d, limit)
    THEN <<<<s, SlotEnd(s, d)>>>> \o GapWindows(s + d, d, limit)
    ELSE <<>>

\* Lines 452-478 from cursor cur over the merged intervals still to visit.
RECURSIVE SweepWindows(_, _, _, _)
SweepWindows(cur, merged, we, d) ==
    IF merged = <<>>
    THEN IF cur < we THEN GapWindows(cur, d, we) ELSE <<>>
    ELSE LET fe == FreeEnd(Head(merged)[1], we)
         IN  (IF cur < fe THEN GapWindows(cur, d, fe) ELSE <<>>)
             \o SweepWindows(NextCursor(cur, Head(merged)[2]), Tail(merged), we, d)

\* Lines 424-478 for one date: the slots of the date as (start, end)
\* instants; none when the date is skipped.
DayWindowsOf(date, busy, sh, eh, dm, now, tz) ==
    LET ws == ToUtc(date, sh, tz)
        we == ToUtc(date, eh, tz)
        ss == SearchStart(now, ws)
    IN  IF ss >= we THEN <<>>
        ELSE SweepWindows(ss, MergeBusy(DayBusy(busy, ws, we)), we,
                          dm * SecondsPerMinute)

\* day_slots of a date.
DayLinesOf(date, busy, sh, eh, dm, now, tz) ==
    LET w == DayWindowsOf(date, busy, sh, eh, dm, now, tz)
    IN  [i \in 1..Len(w) |-> FormatSlot(w[i][1], w[i][2], tz)]

\* Lines 421-487: available_slots_str over the dates from..ped.
RECURSIVE ReportFrom(_, _, _, _, _, _, _, _)
ReportFrom(from, ped, busy, sh, eh, dm, now, tz) ==
    IF from > ped THEN <<>>
    ELSE WithDay(<<>>, from, DayLinesOf(from, busy, sh, eh, dm, now, tz))
         \o ReportFrom(from + 1, ped, busy, sh, eh, dm, now, tz)

\* Lines 378-503: what the tool returns for the arguments sd, ed, sh, eh, dm
\* when the clock reads now, the zone is tz and the calendar answers busy.
ResultOf(sd, ed, sh, eh, dm, now, tz, busy) ==
    IF sd.kind = "bad" \/ ed.kind = "bad" THEN Error("DateFormat")
    ELSE LET psd == AdvancedStart(sd.day, now, tz)
             ped == IF ed.kind = "none" THEN sd.day ELSE ed.day
             err == ValidationError(psd, ped, sh, eh, dm)
         IN  IF err # "" THEN Error(err)
             ELSE Outcome(ReportFrom(psd, ped, Sorted(busy), sh, eh, dm, now, tz),
                          psd, ped, sh, eh, dm)

\* The stepwise run and the function agree on every finished invocation.
StepsAgreeWithResultOf ==
    pc = "done" =>
        result = ResultOf(start_date, end_date, start_hour, end_hour,
                          duration_minutes, now_utc, local_tz, busy_times_utc)

----------------------------------------------------------------------------
(* Properties *)

\* Half-open overlap of two (start, end) windows.
Overlaps(a, b) == a[1] < b[2] /\ b[1] < a[2]

\* The states in which day_windows, day_slots, the window and the merged
\* list are those of current_date.
InDay == pc \in {"sweep", "gap", "tail", "dayend"}

\* The clock reading of a formatted time, in minutes after local midnight.
ClockMinutes(f) ==
    ((f.hour % 12) + (IF f.half = "PM" THEN 12 ELSE 0)) * MinutesPerHour + f.minute

\* C1: the slots emitted for a date are pairwise non-overlapping (half-open)
\* and none overlaps a busy interval that overlaps the date's working window.
C1_SlotDisjointness ==
    InDay =>
        /\ \A i, j \in 1..Len(day_windows) :
              i < j => ~Overlaps(day_windows[i], day_windows[j])
        /\ \A i \in 1..Len(day_windows) : \A k \in 1..Len(busy_times_utc) :
              Overlaps(busy_times_utc[k], <<work_start_utc, work_end_utc>>)
                  => ~Overlaps(day_windows[i], busy_times_utc[k])

\* A finished date with slots on both sides of a busy interval of its window.
C1_Witness ==
    /\ pc = "dayend"
    /\ \E k \in 1..Len(busy_times_utc) : \E i, j \in 1..Len(day_windows) :
          /\ Overlaps(busy_times_utc[k], <<work_start_utc, work_end_utc>>)
          /\ day_windows[i][2] <= busy_times_utc[k][1]
          /\ day_windows[j][1] >= busy_times_utc[k][2]

\* C2: every slot of a date lies inside the clipped window
\* [max(now, work_start), work_end]; the clipped start is never before now,
\* and on a date after today it is the start_hour instant of that date.
C2_SlotsInsideClippedWindow ==
    InDay =>
        /\ search_start_utc >= now_utc
        /\ search_start_utc < work_end_utc
        /\ (current_date > LocalDate(now_utc, local_tz) =>
               search_start_utc + local_tz
                   = current_date * SecondsPerDay + start_hour * SecondsPerHour)
        /\ \A i \in 1..Len(day_windows) :
              /\ day_windows[i][1] >= now_utc
              /\ day_windows[i][1] >= search_start_utc
              /\ day_windows[i][2] <= current_date * SecondsPerDay
                                        + end_hour * SecondsPerHour - local_tz

\* Today's date finished with slots, the clock inside the working hours.
C2_Witness ==
    /\ pc = "dayend"
    /\ current_date = LocalDate(now_utc, local_tz)
    /\ work_start_utc < now_utc
    /\ search_start_utc = now_utc
    /\ Len(day_windows) >= 2

\* C3: every emitted slot is exactly duration_minutes long, as instants and
\* as the clock times written to the reply.
C3_SlotDurationExact ==
    InDay =>
        /\ Len(day_slots) = Len(day_windows)
        /\ \A i \in 1..Len(day_windows) :
              /\ day_windows[i][2] - day_windows[i][1]
                     = duration_minutes * SecondsPerMinute
              /\ ClockMinutes(day_slots[i][2]) - ClockMinutes(day_slots[i][1])
                     = duration_minutes

\* A finished date with slots before and after a busy interval, the clock
\* reading off the minute.
C3_Witness ==
    /\ pc = "dayend"
    /\ now_utc % SecondsPerMinute # 0
    /\ search_start_utc = now_utc
    /\ merged_busy_times # <<>>
    /\ Len(day_windows) >= 3

\* Today's local date, as line 386 reads it.
Today == LocalDate(now_utc, local_tz)

\* A finished date without busy intervals, the clock strictly inside its
\* working hours.
NowInsideNoBusy ==
    /\ pc = "dayend"
    /\ busy_times_utc = <<>>
    /\ current_date = Today
    /\ work_start_utc < now_utc
    /\ now_utc < work_end_utc

\* The first instant work_start + k * duration at or after now.
FirstGridPoint ==
    work_start_utc
        + ((now_utc - work_start_utc + duration - 1) \div duration) * duration

\* Scenario C: 09:00-17:00, 30 minutes, the clock at 09:45:00 local time.
ScenarioC ==
    /\ start_hour = 9 /\ end_hour = 17 /\ duration_minutes = 30
    /\ now_utc + local_tz = At(current_date, 9, 45, 0)

\* C4 as stated: with the clock inside the working hours and no busy
\* interval, the first slot starts at the first grid point
\* work_start + k * duration at or after now (10:00 in scenario C).
C4_FirstSlotOnGrid ==
    (NowInsideNoBusy /\ day_windows # <<>>) =>
        /\ day_windows[1][1] = FirstGridPoint
        /\ ScenarioC => day_slots[1][1] = [hour |-> 10, minute |-> 0, half |-> "AM"]

\* C4 as amended: with the clock inside the working hours and no busy
\* interval, the slots run back to back from now itself; none starts before
\* now and the first starts exactly at now (09:45-10:15 in scenario C).
C4_FirstSlotAtNow ==
    NowInsideNoBusy =>
        /\ Len(day_windows) = (work_end_utc - now_utc) \div duration
        /\ \A i \in 1..Len(day_windows) :
              day_windows[i][1] = now_utc + (i - 1) * duration
        /\ (ScenarioC /\ day_slots # <<>>) =>
               day_slots[1] = <<[hour |-> 9, minute |-> 45, half |-> "AM"],
                                [hour |-> 10, minute |-> 15, half |-> "AM"]>>

\* Scenario C finished: fourteen slots, 09:45 to 16:45.
C4_Witness ==
    /\ NowInsideNoBusy
    /\ ScenarioC
    /\ Len(day_slots) = 14
    /\ FirstGridPoint # now_utc

\* The dates of the (advanced) range, the dates whose clipped window is not
\* empty, and the dates with a section in the report.
RangeDates == parsed_start_date..parsed_end_date
WindowNonEmpty(d) ==
    Max(now_utc, ToUtc(d, start_hour, local_tz)) < ToUtc(d, end_hour, local_tz)
HasEntry(d) == \E i \in 1..Len(available_slots) : available_slots[i].date = d
Completed == pc = "done" /\ fetches > 0

\* C5 as stated: every date of the range whose clipped working window is
\* non-empty has an entry in the report, also when its slot list is empty.
C5_EveryWindowDateListed ==
    Completed => \A d \in RangeDates : WindowNonEmpty(d) => HasEntry(d)

\* C5 as amended: a date of the range has an entry in the report exactly
\* when its clipped window is non-empty and it produced at least one slot;
\* no entry has an empty slot list, so a fully booked date is absent like a
\* skipped one.
C5_OnlyDatesWithSlotsListed ==
    Completed =>
        /\ \A d \in RangeDates :
              HasEntry(d) <=>
                  /\ WindowNonEmpty(d)
                  /\ DayWindowsOf(d, busy_times_utc, start_hour, end_hour,
                                  duration_minutes, now_utc, local_tz) # <<>>
        /\ \A i \in 1..Len(available_slots) :
              /\ available_slots[i].date \in RangeDates
              /\ available_slots[i].slots # <<>>
              /\ \A j \in 1..Len(available_slots) :
                    i < j => available_slots[i].date < available_slots[j].date

\* A finished invocation over two dates: one fully covered by a busy
\* interval and absent from the report, the other listed.
C5_Witness ==
    /\ Completed
    /\ \E d, e \in RangeDates :
          /\ WindowNonEmpty(d) /\ ~HasEntry(d)
          /\ \E k \in 1..Len(busy_times_utc) :
                /\ busy_times_utc[k][1] <= ToUtc(d, start_hour, local_tz)
                /\ busy_times_utc[k][2] >= ToUtc(d, end_hour, local_tz)
          /\ HasEntry(e)

\* What the same request returns with start_date set to today, for the busy
\* list this invocation fetched or, when it fetched none, for some busy list.
SameAsFromToday ==
    IF fetches > 0
    THEN result = ResultOf(IsoDate(Today), end_date, start_hour, end_hour,
                           duration_minutes, now_utc, local_tz, busy_times_utc)
    ELSE \E S \in BusySets :
            result = ResultOf(IsoDate(Today), end_date, start_hour, end_hour,
                              duration_minutes, now_utc, local_tz, AsList(S))

\* A finished invocation whose start_date is before today and whose hours
\* and duration are valid.
PastStart ==
    /\ pc = "done"
    /\ start_date.kind = "iso"
    /\ end_date.kind # "bad"
    /\ start_date.day < Today
    /\ 0 <= start_hour /\ start_hour < end_hour /\ end_hour <= 23
    /\ 0 < duration_minutes /\ duration_minutes <= 1440

\* C6: a request whose start_date is before today, with end_date given or
\* omitted, returns what the same request returns with start_date = today.
C6_PastStartAsToday == PastStart => SameAsFromToday

\* The part of C6 the code keeps: with end_date given.
PastStartAsTodayEndGiven == (PastStart /\ end_date.kind = "iso") => SameAsFromToday

\* The requests C7 names.
InvalidRequest ==
    \/ start_date.kind = "iso" /\ end_date.kind = "iso"
          /\ end_date.day < start_date.day
    \/ start_hour < 0 \/ start_hour > 23 \/ end_hour < 0 \/ end_hour > 23
    \/ start_hour >= end_hour
    \/ duration_minutes <= 0 \/ duration_minutes > 1440

ErrorKinds == {"DateFormat", "Range", "Hours", "HourOrder", "Duration"}

\* C7: an invalid request (end before start, an hour outside 0..23,
\* start_hour >= end_hour, duration <= 0 or > 1440) ends in an error before
\* the per-date loop starts: no query, no date processed, no slot produced.
C7_InvalidRequestFailsFast ==
    InvalidRequest =>
        /\ pc \in {"start", "parse", "validate", "done"}
        /\ fetches = 0
        /\ day_windows = <<>> /\ day_slots = <<>> /\ available_slots = <<>>
        /\ pc = "done" => result.kind \in ErrorKinds

\* A request that passes every check but the last, finished.
C7_Witness ==
    /\ InvalidRequest
    /\ pc = "done"
    /\ result.kind = "Duration"
    /\ duration_minutes > 1440

\* Coverage of an instant by a list of half-open intervals.
Covering(list, t) == {k \in 1..Len(list) : list[k][1] <= t /\ t < list[k][2]}

\* Coverage changes only at an interval's start or end: the instants where
\* some interval of the filtered or the merged list starts or ends, and the
\* instant before each, stand for all instants.
MergeSamples ==
    LET ends(list) == {list[k][1] : k \in 1..Len(list)}
                          \cup {list[k][2] : k \in 1..Len(list)}
        E == ends(day_busy_times_utc) \cup ends(merged_busy_times)
    IN  E \cup {e - 1 : e \in E}

\* C8: the per-day merge loses and duplicates no coverage: an instant
\* covered by a busy interval given to the merge is covered by exactly one
\* merged interval, and an instant covered by none is covered by no merged
\* interval.
C8_MergeCompleteness ==
    InDay =>
        \A t \in MergeSamples :
            Cardinality(Covering(merged_busy_times, t))
                = IF Covering(day_busy_times_utc, t) # {} THEN 1 ELSE 0

\* Three busy intervals of a date merged into one.
C8_Witness ==
    /\ pc = "sweep"
    /\ Len(day_busy_times_utc) = 3
    /\ Len(merged_busy_times) = 1
    /\ \E k \in 1..3 : day_busy_times_utc[k][2] < merged_busy_times[1][2]

\* A busy interval that covers an instant.
IsProper(b) == b[1] < b[2]

\* C9: busy intervals with start >= end are discarded: the invocation
\* returns what it returns for the busy list without them.
C9_DegenerateBusyDiscarded ==
    Completed =>
        result = ResultOf(start_date, end_date, start_hour, end_hour,
                          duration_minutes, now_utc, local_tz,
                          SelectSeq(busy_times_utc, IsProper))

\* The clock reading h:m of the 24-hour clock as the reply writes it.
Reading(h, m) ==
    [hour |-> IF h % 12 = 0 THEN 12 ELSE h % 12,
     minute |-> m,
     half |-> IF h < 12 THEN "AM" ELSE "PM"]

\* The slot line of the 30-minute slot that starts n half hours after 00:00.
HalfHourSlot(n) ==
    <<Reading(n \div 2, (n % 2) * 30), Reading((n + 1) \div 2, ((n + 1) % 2) * 30)>>

\* Scenario B: 09:00-17:00, 30 minutes, the clock before 09:00, one busy
\* interval 10:00-11:00 local time; the date finished.
ScenarioB ==
    /\ pc = "dayend"
    /\ start_hour = 9 /\ end_hour = 17 /\ duration_minutes = 30
    /\ now_utc < work_start_utc
    /\ busy_times_utc = << <<At(current_date, 10, 0, 0) - local_tz,
                             At(current_date, 11, 0, 0) - local_tz>> >>

ScenarioBSlotsAroundBusy ==
    /\ day_slots[1] = HalfHourSlot(18)
    /\ day_slots[2] = HalfHourSlot(19)
    /\ \A i \in 3..Len(day_slots) : day_slots[i] = HalfHourSlot(19 + i)
    /\ day_slots[Len(day_slots)] = HalfHourSlot(33)
    /\ \A i \in 1..Len(day_windows) :
          ~Overlaps(day_windows[i], busy_times_utc[1])

\* C10 as stated: in scenario B the slots are 09:00-09:30 and 09:30-10:00,
\* then 11:00-11:30 through 16:30-17:00, 12 slots in total, none overlapping
\* 10:00-11:00.
C10_ScenarioBTwelveSlots ==
    ScenarioB => (Len(day_slots) = 12 /\ ScenarioBSlotsAroundBusy)

\* C10 as amended: the same slots, which are 14 in total (2 before the busy
\* interval, 12 after it).
C10_ScenarioBFourteenSlots ==
    ScenarioB => (Len(day_slots) = 14 /\ ScenarioBSlotsAroundBusy)

\* Scenario B reached, with its last slot ending at 05:00 PM.
C10_Witness ==
    /\ ScenarioB
    /\ Len(day_slots) > 2
    /\ day_slots[Len(day_slots)][2] = Reading(17, 0)

\* The end of the gap an emission loop is filling, and the number of slots
\* it has emitted so far.
GapLimit == IF pc = "gap" THEN free_end_utc ELSE work_end_utc
EmittedInGap == (slot_start_utc - current_time_utc) \div duration

\* floor(L / duration) summed over the gaps of a date: before each merged
\* busy interval from the cursor, and after the last one to the window end.
RECURSIVE FloorCount(_, _, _, _)
FloorCount(cur, merged, we, d) ==
    IF merged = <<>>
    THEN IF cur < we THEN (we - cur) \div d ELSE 0
    ELSE LET fe == Min(Head(merged)[1], we)
         IN  (IF cur < fe THEN (fe - cur) \div d ELSE 0)
             + FloorCount(Max(cur, Head(merged)[2]), Tail(merged), we, d)

\* Scenarios A and F: no busy interval, the clock before the working hours.
ScenarioNoBusy(sh, eh, dm) ==
    /\ pc = "dayend"
    /\ start_hour = sh /\ end_hour = eh /\ duration_minutes = dm
    /\ busy_times_utc = <<>>
    /\ now_utc < work_start_utc

\* C11: in every gap the slots are emitted back to back from the gap's
\* start and stop when less than one duration is left, so a gap of length L
\* holds floor(L / duration) slots (scenario A: 16 contiguous slots
\* 09:00-17:00; scenario F: the single slot 09:00-09:45).
C11_GapsFilledBackToBack ==
    /\ pc \in {"gap", "tail"} =>
          LET n == EmittedInGap
              len == Len(day_windows)
          IN  /\ slot_start_utc = current_time_utc + n * duration
              /\ slot_start_utc <= GapLimit
              /\ n <= len
              /\ n <= (GapLimit - current_time_utc) \div duration
              /\ \A i \in 1..n :
                    day_windows[len - n + i] =
                        <<current_time_utc + (i - 1) * duration,
                          current_time_utc + i * duration>>
              /\ len > n => day_windows[len - n][2] <= current_time_utc
    /\ pc = "dayend" =>
          Len(day_windows) = FloorCount(search_start_utc, merged_busy_times,
                                        work_end_utc, duration)
    /\ ScenarioNoBusy(9, 17, 30) =>
          /\ Len(day_slots) = 16
          /\ \A i \in 1..Len(day_slots) : day_slots[i] = HalfHourSlot(17 + i)
    /\ ScenarioNoBusy(9, 10, 45) =>
          day_slots = << <<Reading(9, 0), Reading(9, 45)>> >>

\* A date finished whose gap before a busy interval held slots and left a
\* remainder shorter than one duration.
C11_Witness ==
    /\ pc = "dayend"
    /\ merged_busy_times # <<>>
    /\ search_start_utc < merged_busy_times[1][1]
    /\ (merged_busy_times[1][1] - search_start_utc) % duration # 0
    /\ (merged_busy_times[1][1] - search_start_utc) \div duration >= 1
    /\ Len(day_windows) >= 2

\* A list of intervals that is sorted, pairwise disjoint and non-touching.
AlreadyMerged(list) ==
    /\ \A k \in 1..Len(list) : list[k][1] <= list[k][2]
    /\ \A k \in 1..(Len(list) - 1) : list[k][2] < list[k + 1][1]

\* C12: the merge is idempotent: a filtered list that is already merged
\* (sorted, pairwise disjoint, non-touching) comes out of the merge
\* unchanged, and merging the merged list again returns it unchanged.
C12_MergeIdempotent ==
    InDay =>
        /\ AlreadyMerged(day_busy_times_utc) =>
               merged_busy_times = day_busy_times_utc
        /\ AlreadyMerged(merged_busy_times)
        /\ MergeBusy(merged_busy_times) = merged_busy_times

\* A date whose filtered list holds several intervals and is already merged.
C12_Witness ==
    /\ pc = "sweep"
    /\ Len(day_busy_times_utc) >= 2
    /\ AlreadyMerged(day_busy_times_utc)
    /\ day_busy_times_utc[1][1] < day_busy_times_utc[1][2]

\* The slots a date of the range produced.
SlotsOn(d) ==
    DayWindowsOf(d, busy_times_utc, start_hour, end_hour, duration_minutes,
                 now_utc, local_tz)

\* C13: a valid request returns the single no-slots outcome exactly when no
\* date of the range produced a slot; otherwise it returns the slot listing,
\* which then holds the slots of every date that produced some.
C13_NoSlotsIffNoDateHasSlots ==
    Completed =>
        /\ result.kind \in {"NoSlots", "Slots"}
        /\ result.kind = "NoSlots" <=> \A d \in RangeDates : SlotsOn(d) = <<>>
        /\ result.kind = "Slots" =>
              /\ result.body = available_slots
              /\ \A d \in RangeDates :
                    SlotsOn(d) # <<>> =>
                        \E i \in 1..Len(result.body) :
                            /\ result.body[i].date = d
                            /\ Len(result.body[i].slots) = Len(SlotsOn(d))

\* A range of two dates, both with working time left and both fully booked,
\* answered with the no-slots outcome.
C13_Witness ==
    /\ Completed
    /\ result.kind = "NoSlots"
    /\ parsed_start_date < parsed_end_date
    /\ \A d \in RangeDates : WindowNonEmpty(d)

----------------------------------------------------------------------------
(* update_calendar_event (src/backend/tools.py, lines 269-351).  An        *)
(* optional value is a sequence of length 0 (None, or an absent key) or 1. *)

\* The zone of the machine, get_localzone_name().
SystemZone == At(0, 5, 30, 0)

\* An ISO date-time string: its wall-clock reading as seconds since 00:00 of
\* date 0, and its UTC offset when it carries one.
Iso(wall, off) == [wall |-> wall, off |-> off, aware |-> TRUE]
Naive(wall) == [wall |-> wall, off |-> 0, aware |-> FALSE]

\* The instant date_parse(s) denotes; a naive reading is taken in the
\* machine's zone by astimezone.
Instant(s) == s.wall - (IF s.aware THEN s.off ELSE SystemZone)

\* date_parse(s).astimezone(tz).isoformat()
AsTimezone(s, tz) == Iso(Instant(s) + tz, tz)

\* (dt + timedelta).isoformat()
Plus(s, d) == [s EXCEPT !.wall = @ + d]

\* The 'start' or 'end' object of an event.
TimedPoint(s, tz) == [dateTime |-> <<s>>, date |-> <<>>, timeZone |-> <<tz>>]
DatePoint(d) == [dateTime |-> <<>>, date |-> <<d>>, timeZone |-> <<>>]

\* Events of the calendar: at 10:00 of date 1 in either zone, one hour or
\* half an hour long, and an all-day event on date 1; with or without
\* attendees.
EventPool ==
    { [start |-> TimedPoint(Iso(At(1, 10, 0, 0), z), z),
       end |-> TimedPoint(Iso(At(1, 10, 0, 0) + len, z), z),
       summary |-> <<"Standup">>, description |-> <<>>, attendees |-> att]
        : z \in TzOffsets, len \in {At(0, 1, 0, 0), At(0, 0, 30, 0)},
          att \in {<<>>, << <<"a">> >>} }
    \cup
    { [start |-> DatePoint(1), end |-> DatePoint(2),
       summary |-> <<"Offsite">>, description |-> <<>>, attendees |-> att]
        : att \in {<<>>, << <<"a">> >>} }

\* The arguments besides event_id, each optional.
KwargsPool ==
    [start_time : {<<>>, <<Iso(At(1, 14, 0, 0), At(0, 5, 30, 0))>>,
                   <<Naive(At(2, 9, 0, 0))>>},
     end_time : {<<>>, <<Iso(At(1, 15, 0, 0), At(0, 5, 30, 0))>>},
     summary : {<<>>, <<"Sync">>},
     description : {<<>>, <<"Agenda">>},
     attendees_to_add : {<<>>, << <<"a", "b">> >>},
     attendees_to_remove : {<<>>, << <<"a">> >>}]

\* find_available_time_slots is not running.
FindIdle ==
    /\ start_date = NoDate /\ end_date = NoDate
    /\ start_hour = 0 /\ end_hour = 0 /\ duration_minutes = 0
    /\ local_tz = 0 /\ now_utc = 0
    /\ parsed_start_date = 0 /\ parsed_end_date = 0
    /\ busy_times_utc = <<>> /\ fetches = 0
    /\ current_date = 0
    /\ work_start_utc = 0 /\ work_end_utc = 0 /\ search_start_utc = 0
    /\ current_time_utc = 0 /\ day_busy_times_utc = <<>>
    /\ merged_busy_times = <<>> /\ idx = 0 /\ free_end_utc = 0
    /\ slot_start_utc = 0 /\ day_slots = <<>> /\ day_windows = <<>>
    /\ available_slots = <<>>
    /\ result = NoResult
    /\ pc = "idle"

find == <<args, env, parsed, fetched, current_date, day, sweep, slots,
          available_slots, result, pc>>

\* One call of update_calendar_event: the event of event_id exists in the
\* calendar or not.
UpdateInit ==
    /\ FindIdle
    /\ kwargs \in KwargsPool
    /\ calendar_event \in {<<>>} \cup {<<e>> : e \in EventPool}
    /\ event = <<>>
    /\ update_data = <<>>
    /\ update_result = ""
    /\ update_pc = "start"

\* Line 283: the zone of the event, or the machine's.
EventTimezone(ev) ==
    IF ev.start.timeZone # <<>> THEN ev.start.timeZone[1] ELSE SystemZone

\* Lines 279-286: the event is fetched; the arguments that are not None.
UpdGet ==
    /\ update_pc = "start"
    /\ calendar_event # <<>>
    /\ event' = calendar_event[1]
    /\ update_data' = kwargs
    /\ update_pc' = "smart"
    /\ UNCHANGED <<find, kwargs, calendar_event, update_result>>

\* Lines 280 and 350: no event of that id.
UpdGetFails ==
    /\ update_pc = "start"
    /\ calendar_event = <<>>
    /\ update_result' = "Error"
    /\ update_pc' = "done"
    /\ UNCHANGED <<find, kwargs, calendar_event, event, update_data>>

\* Lines 289-293: only a new start is given and the event has a start and an
\* end dateTime.
KeepsDuration(ev, data) ==
    /\ data.start_time # <<>>
    /\ data.end_time = <<>>
    /\ ev.start.dateTime # <<>>
    /\ ev.end.dateTime # <<>>

\* Lines 294-302: the event moved to the new start, its duration kept.
Moved(ev, start_time, tz) ==
    LET d == Instant(ev.end.dateTime[1]) - Instant(ev.start.dateTime[1])
        new_start == AsTimezone(start_time, tz)
    IN  [ev EXCEPT !.start.dateTime = <<new_start>>,
                   !.end.dateTime = <<Plus(new_start, d)>>]

\* Lines 288-303.
UpdSmartDuration ==
    /\ update_pc = "smart"
    /\ IF KeepsDuration(event, update_data)
       THEN /\ event' = Moved(event, update_data.start_time[1],
                              EventTimezone(calendar_event[1]))
            /\ update_data' = [update_data EXCEPT !.start_time = <<>>]
       ELSE UNCHANGED <<event, update_data>>
    /\ update_pc' = "fields"
    /\ UNCHANGED <<find, kwargs, calendar_event, update_result>>

\* Lines 305-316: title, description, start and end.
WithFields(ev, data, tz) ==
    [ev EXCEPT
        !.summary = IF data.summary # <<>> THEN data.summary ELSE @,
        !.description = IF data.description # <<>> THEN data.description ELSE @,
        !.start = IF data.start_time # <<>>
                  THEN TimedPoint(AsTimezone(data.start_time[1], tz), tz) ELSE @,
        !.end = IF data.end_time # <<>>
                THEN TimedPoint(AsTimezone(data.end_time[1], tz), tz) ELSE @]

UpdFields ==
    /\ update_pc = "fields"
    /\ event' = WithFields(event, update_data, EventTimezone(calendar_event[1]))
    /\ update_pc' = "attendees"
    /\ UNCHANGED <<find, kwargs, calendar_event, update_data, update_result>>

\* Lines 318-324: the emails not yet among the attendees are appended.
Added(att, emails) ==
    LET list == IF att = <<>> THEN <<>> ELSE att[1]
        existing == {list[i] : i \in 1..Len(list)}
        new(e) == e \notin existing
    IN  <<list \o SelectSeq(emails, new)>>

\* Lines 326-329.
Removed(att, emails) ==
    IF att = <<>> THEN att
    ELSE LET gone == {emails[i] : i \in 1..Len(emails)}
             stays(e) == e \notin gone
         IN  <<SelectSeq(att[1], stays)>>

\* Lines 318-329.
UpdAttendees ==
    /\ update_pc = "attendees"
    /\ LET added == IF update_data.attendees_to_add # <<>>
                    THEN Added(event.attendees, update_data.attendees_to_add[1])
                    ELSE event.attendees
       IN  event' = [event EXCEPT !.attendees =
                        IF update_data.attendees_to_remove # <<>>
                        THEN Removed(added, update_data.attendees_to_remove[1])
                        ELSE added]
    /\ update_pc' = "send"
    /\ UNCHANGED <<find, kwargs, calendar_event, update_data, update_result>>

\* Lines 331-349: the calendar takes the event.
UpdSend ==
    /\ update_pc = "send"
    /\ calendar_event' = <<event>>
    /\ update_result' = "Updated"
    /\ update_pc' = "done"
    /\ UNCHANGED <<find, kwargs, event, update_data>>

\* Lines 331 and 350: the calendar refuses the event (HttpError).
UpdSendFails ==
    /\ update_pc = "send"
    /\ update_result' = "Error"
    /\ update_pc' = "done"
    /\ UNCHANGED <<find, kwargs, calendar_event, event, update_data>>

UpdateNext ==
    \/ UpdGet
    \/ UpdGetFails
    \/ UpdSmartDuration
    \/ UpdFields
    \/ UpdAttendees
    \/ UpdSend
    \/ UpdSendFails

UpdateSpec == UpdateInit /\ [][UpdateNext]_vars

\* The instant of an event's start or end; an all-day bound is local
\* midnight of its date.
PointInstant(p) ==
    IF p.dateTime # <<>> THEN Instant(p.dateTime[1])
    ELSE p.date[1] * SecondsPerDay - SystemZone

Length(ev) == PointInstant(ev.end) - PointInstant(ev.start)

\* The call gives a new start_time and no end_time; the event to send is
\* built and the calendar still holds the original.
OnlyStartGiven ==
    /\ update_pc = "send"
    /\ kwargs.start_time # <<>>
    /\ kwargs.end_time = <<>>

\* C14: when only a new start_time is given, the updated event starts at it
\* and its end is moved so that end minus start is the event's original
\* duration, for every existing event.
C14_StartOnlyKeepsDuration ==
    OnlyStartGiven =>
        /\ PointInstant(event.start) = Instant(kwargs.start_time[1])
        /\ Length(event) = Length(calendar_event[1])

\* The part of C14 the code keeps: events with a start and an end dateTime.
StartOnlyKeepsDurationOfTimedEvents ==
    (OnlyStartGiven /\ calendar_event[1].start.dateTime # <<>>) =>
        /\ PointInstant(event.start) = Instant(kwargs.start_time[1])
        /\ Length(event) = Length(calendar_event[1])
        /\ event.end.dateTime # <<>>

----------------------------------------------------------------------------
\* A step of the sweep of one date keeps or advances the cursor; the step
\* that passes a busy interval leaves it at or after that interval's end.
CursorKept ==
    pc \in {"sweep", "gap", "tail"} =>
        /\ current_time_utc' >= current_time_utc
        /\ (idx' = idx + 1 => current_time_utc' >= merged_busy_times[idx][2])

\* C15: during the sweep over a date's merged busy intervals the cursor
\* current_time_utc never decreases: every step of the sweep, the one that
\* passes a busy interval included, leaves it at least at its previous value,
\* also when the busy interval lies entirely before the cursor.
C15_CursorNeverDecreases == [][CursorKept]_vars

\* A busy interval that ended before the cursor's first value has been
\* passed, and the cursor is still at that first value.
C15_Witness ==
    /\ pc = "sweep"
    /\ idx > 1
    /\ merged_busy_times[idx - 1][2] < search_start_utc
    /\ current_time_utc = search_start_utc

----------------------------------------------------------------------------
\* Every step that is enabled for ever is taken: the interpreter runs the
\* function to its return.
FairSpec == Spec /\ WF_vars(Next)

\* An iteration of a slot loop moves slot_start_utc forward, an iteration of
\* the loop over the dates (the skip of an elapsed day included) moves
\* current_date to the next date, and current_date passes parsed_end_date by
\* one at most.
Advances ==
    /\ (pc \in {"gap", "tail"} /\ day_windows' # day_windows) =>
           slot_start_utc' > slot_start_utc
    /\ ((pc = "loop" /\ pc' = "loop") \/ pc = "dayend") =>
           /\ current_date' = current_date + 1
           /\ current_date' <= parsed_end_date + 1
    /\ current_date' >= current_date

\* C16: a request that passes validation is computed to its end, whatever
\* the busy set: the loop over the dates reaches the end date, also through
\* the skip of elapsed days, and each slot loop ends, current_date and
\* slot_start_utc growing at every iteration.
C16_ValidRequestTerminates ==
    /\ [][Advances]_vars
    /\ (pc = "fetch") ~> (pc = "done")

\* A finished run whose first date was skipped as elapsed and whose later
\* dates produced slots.
C16_Witness ==
    /\ Completed
    /\ result.kind = "Slots"
    /\ parsed_start_date < parsed_end_date
    /\ ToUtc(parsed_start_date, end_hour, local_tz) <= now_utc
    /\ busy_times_utc # <<>>

----------------------------------------------------------------------------
\* The intervals of a merged list that overlap the window (ws, we).
RECURSIVE SelectOverlapping(_, _, _)
SelectOverlapping(merged, ws, we) ==
    IF merged = <<>> THEN <<>>
    ELSE (IF Overlaps(Head(merged), <<ws, we>>) THEN <<Head(merged)>> ELSE <<>>)
         \o SelectOverlapping(Tail(merged), ws, we)

\* The slots of a window when the busy list is filtered to the window and
\* then merged, as on lines 439-450.
WindowsFilteredFirst(busy, ws, we, ss, d) ==
    SweepWindows(ss, MergeBusy(DayBusy(busy, ws, we)), we, d)

\* The slots of a window when the whole busy list is merged once and the
\* merged intervals overlapping the window are selected.
WindowsMergedFirst(busy, ws, we, ss, d) ==
    SweepWindows(ss, SelectOverlapping(MergeBusy(busy), ws, we), we, d)

\* Busy intervals at the boundaries of the window (ws, we): ending at its
\* start, starting at its end, of zero length at either, and across either.
BoundaryBusy(ws, we) ==
    { <<ws - SecondsPerHour, ws>>, <<we, we + SecondsPerHour>>,
      <<ws, ws>>, <<we, we>>,
      <<ws - SecondsPerHour, ws + 15 * SecondsPerMinute>>,
      <<we - 15 * SecondsPerMinute, we + SecondsPerHour>> }

\* C17: for every date, filtering the busy set to the date's working window
\* and then merging, as the code does, yields the same slots as merging the
\* whole busy set once and selecting the merged intervals that overlap the
\* window; also with a busy interval that spans midnight or touches or
\* crosses a boundary of the window.
C17_FilterThenMergeAsMergeThenSelect ==
    pc = "dayend" =>
        /\ day_windows = WindowsMergedFirst(busy_times_utc, work_start_utc,
                             work_end_utc, search_start_utc, duration)
        /\ \A e \in BoundaryBusy(work_start_utc, work_end_utc) :
               WindowsFilteredFirst(Append(busy_times_utc, e), work_start_utc,
                   work_end_utc, search_start_utc, duration)
               = WindowsMergedFirst(Append(busy_times_utc, e), work_start_utc,
                     work_end_utc, search_start_utc, duration)

\* A date with slots whose busy intervals include one that spans midnight,
\* the list merged per date differing from the selection of the list merged
\* once.
C17_Witness ==
    /\ pc = "dayend"
    /\ day_windows # <<>>
    /\ merged_busy_times #
           SelectOverlapping(MergeBusy(busy_times_utc), work_start_utc,
                             work_end_utc)
    /\ \E i \in 1..Len(day_busy_times_utc) :
           LocalDate(day_busy_times_utc[i][1], local_tz)
               < LocalDate(day_busy_times_utc[i][2], local_tz)

----------------------------------------------------------------------------
\* Every check of lines 378-398 passes on the values the code tests: the
\* dates parsed, the start date (advanced to today) not after the end date,
\* the hours within 0..23 and in order, the duration within 1..1440.
ChecksPassed ==
    /\ start_date.kind # "bad" /\ end_date.kind # "bad"
    /\ parsed_start_date <= parsed_end_date
    /\ start_hour \in 0..MaxHour /\ end_hour \in 0..MaxHour
    /\ start_hour < end_hour
    /\ duration_minutes \in 1..MaxDuration

\* C18: in one invocation the freebusy query is made exactly once, after
\* all validation checks have passed and before the first date is
\* processed; a request that fails a check never makes the query.
C18_FetchOnceAfterValidation ==
    /\ fetches \in {0, 1}
    /\ fetches = 1 <=>
           \/ pc \in {"loop", "sweep", "gap", "tail", "dayend"}
           \/ pc = "done" /\ result.kind \in {"Slots", "NoSlots"}
    /\ fetches = 1 => ChecksPassed
    /\ fetches = 0 =>
           /\ available_slots = <<>> /\ day_slots = <<>> /\ day_windows = <<>>
           /\ merged_busy_times = <<>> /\ busy_times_utc = <<>>
    /\ (pc = "done" /\ result.kind \in ErrorKinds) => fetches = 0
    /\ (pc = "done" /\ ~ChecksPassed) => fetches = 0

\* A finished run with slots whose start date was advanced to today before
\* the checks, the query made once.
C18_Witness ==
    /\ pc = "done"
    /\ fetches = 1
    /\ result.kind = "Slots"
    /\ start_date.kind = "iso"
    /\ parsed_start_date > start_date.day

====
